---- MODULE Spec2Model ----
(***************************************************************************)
(* A model of the write path (ZipFileWriter, EntryStreamWriter) and of the *)
(* filesystem read path (ZipFileReader) of rs-async-zip.                   *)
(*                                                                         *)
(* The archive is modelled byte for byte: `out` is the content of the      *)
(* sink the ZipFileWriter writes to, and the reader decodes that content.  *)
(***************************************************************************)
EXTENDS Integers, Sequences, FiniteSets, TLC

(***************************************************************************)
(* Bounds of the model.                                                    *)
(***************************************************************************)
\* entries started (stream or whole) in one archive
MaxEntries == 2
\* injected I/O errors of the sink in one behaviour
MaxIoErrors == 1
\* fields of the finished file overwritten by another party
MaxPatches == 2

(***************************************************************************)
(* Bytes and fixed-width integers.                                         *)
(***************************************************************************)
Pow2(n) == 2 ^ n

AsU16(n) == n % Pow2(16)

\* `as u32` of a usize: n % 2^32.  The integers TLC computes with are below
\* 2^31, and on those the cast keeps the value.
AsU32(n) == n

U16LE(n) == << n % 256, (n \div 256) % 256 >>

U32LE(n) == << n % 256, (n \div 256) % 256, (n \div 65536) % 256, (n \div 16777216) % 256 >>

\* the little-endian integer held by `width` bytes of b from position i (1-based)
RECURSIVE ReadLE(_, _, _)
ReadLE(b, i, width) ==
    IF width = 0 THEN 0 ELSE b[i] + 256 * ReadLE(b, i + 1, width - 1)

RECURSIVE Concat(_)
Concat(ss) == IF ss = << >> THEN << >> ELSE Head(ss) \o Concat(Tail(ss))

IsPrefix(p, s) == Len(p) <= Len(s) /\ SubSeq(s, 1, Len(p)) = p

\* whether the bytes of s at positions i .. i+Len(d)-1 are d
MatchAt(s, i, d) == i >= 1 /\ i + Len(d) - 1 <= Len(s) /\ SubSeq(s, i, i + Len(d) - 1) = d

\* the first position >= from where d occurs in s, or 0
RECURSIVE FindFirst(_, _, _)
FindFirst(s, from, d) ==
    IF from + Len(d) - 1 > Len(s) THEN 0
    ELSE IF MatchAt(s, from, d) THEN from
    ELSE FindFirst(s, from + 1, d)

\* the last position <= from where d occurs in s, or 0
RECURSIVE FindLastFrom(_, _, _)
FindLastFrom(s, from, d) ==
    IF from < 1 THEN 0
    ELSE IF MatchAt(s, from, d) THEN from
    ELSE FindLastFrom(s, from - 1, d)

\* the last position where d occurs in s, or 0
FindLast(s, d) == FindLastFrom(s, Len(s) - Len(d) + 1, d)

(***************************************************************************)
(* Signatures, as the little-endian bytes written to the archive.          *)
(***************************************************************************)
LOCAL_FILE_HEADER == U32LE(67324752)             \* 0x04034b50

DATA_DESCRIPTOR == U32LE(134695760)              \* 0x08074b50

CENTRAL_DIRECTORY_FILE_HEADER == U32LE(33639248) \* 0x02014b50

END_OF_CENTRAL_DIRECTORY == U32LE(101010256)     \* 0x06054b50

(***************************************************************************)
(* Compression methods.                                                    *)
(***************************************************************************)
Stored == "Stored"

Deflate == "Deflate"

CompressionToU16(c) == IF c = Stored THEN 0 ELSE 8

CompressionFromU16(n) == IF n = 0 THEN Stored ELSE IF n = 8 THEN Deflate ELSE "Unsupported"

\* The deflate codec is an external collaborator.  It is modelled by what the
\* write path relies on: the encoder buffers what it is given, emits encoded
\* bytes on flush, and on shutdown emits the rest followed by a final block.
DeflateByte(b) == 255 - b

DeflateCode(bytes) == [ i \in 1 .. Len(bytes) |-> DeflateByte(bytes[i]) ]

DeflateFinal == << 3, 0 >>

\* what the adapter emits to the sink when it accepts `bytes`
EmitOnWrite(c, bytes) == IF c = Stored THEN bytes ELSE << >>

\* what the adapter keeps buffered after accepting `bytes`
PendingOnWrite(c, pending, bytes) == IF c = Stored THEN << >> ELSE pending \o bytes

EmitOnFlush(c, pending) == IF c = Stored THEN << >> ELSE DeflateCode(pending)

\* what the adapter emits on its first shutdown
EmitOnShutdown(c, pending) == IF c = Stored THEN << >> ELSE DeflateCode(pending) \o DeflateFinal

\* the decoder: [ok, data] from the framed raw bytes of an entry
Decompress(c, raw) ==
    IF c = Stored THEN [ok |-> TRUE, data |-> raw]
    ELSE IF c = Deflate THEN
        IF Len(raw) >= Len(DeflateFinal) /\ MatchAt(raw, Len(raw) - Len(DeflateFinal) + 1, DeflateFinal)
        THEN [ok |-> TRUE, data |-> DeflateCode(SubSeq(raw, 1, Len(raw) - Len(DeflateFinal)))]
        ELSE [ok |-> FALSE, data |-> << >>]
    ELSE [ok |-> FALSE, data |-> << >>]

(***************************************************************************)
(* The CRC-32 accumulator (crc32fast::Hasher), an external collaborator:   *)
(* a state updated byte by byte, in order (here a polynomial checksum that *)
(* fits the 32-bit field).                                                 *)
(***************************************************************************)
HasherNew == 0

RECURSIVE HasherUpdate(_, _)
HasherUpdate(h, bytes) ==
    IF bytes = << >> THEN h
    ELSE HasherUpdate((h * 33 + Head(bytes) + 1) % 65521, Tail(bytes))

HasherFinalize(h) == h

Crc32(bytes) == HasherFinalize(HasherUpdate(HasherNew, bytes))

(***************************************************************************)
(* Options.  None is << >> and Some(x) is << x >>.                         *)
(***************************************************************************)
None == << >>

Some(x) == << x >>

IsSome(o) == o # << >>

Unwrap(o) == o[1]

\* EntryOptions::new(filename, compression).extra(..).comment(..)
EntryOptions(filename, compression, extra, comment) ==
    [filename |-> filename, compression |-> compression, extra |-> extra,
     comment |-> comment, unix_permissions |-> 0]

\* the entry options a caller passes: "a" stored, and "bc" deflated with an
\* extra field and a comment
OptionsSet ==
    { EntryOptions(<< 97 >>, Stored, << >>, << >>),
      EntryOptions(<< 98, 99 >>, Deflate, << 9 >>, << 107 >>) }

\* the payloads a caller streams, in any chunking; the second one holds the
\* bytes of the data descriptor signature
Payloads == { << 65, 66 >>, << 65, 80, 75, 7, 8 >> }

\* the payloads a caller writes whole
WholePayloads == { << >>, << 97, 98, 99 >> }

\* the archive comments a caller sets
Comments == { << 122 >> }

IsAscii(bytes) == \A i \in 1 .. Len(bytes) : bytes[i] < 128

(***************************************************************************)
(* Header codec (crate::spec::header): fixed little-endian layouts.        *)
(***************************************************************************)
GeneralPurposeFlag(data_descriptor, encrypted, filename_unicode) ==
    [data_descriptor |-> data_descriptor, encrypted |-> encrypted,
     filename_unicode |-> filename_unicode]

FlagToU16(f) ==
    (IF f.encrypted THEN 1 ELSE 0) + (IF f.data_descriptor THEN 8 ELSE 0)
        + (IF f.filename_unicode THEN 2048 ELSE 0)

FlagFromU16(n) ==
    GeneralPurposeFlag((n \div 8) % 2 = 1, n % 2 = 1, (n \div 2048) % 2 = 1)

\* LocalFileHeader::as_slice: the 26 bytes that follow the signature
LfhAsSlice(h) ==
    U16LE(h.version) \o U16LE(FlagToU16(h.flags)) \o U16LE(h.compression)
        \o U16LE(h.mod_time) \o U16LE(h.mod_date) \o U32LE(h.crc)
        \o U32LE(h.compressed_size) \o U32LE(h.uncompressed_size)
        \o U16LE(h.file_name_length) \o U16LE(h.extra_field_length)

LfhSize == 26

\* LocalFileHeader::from_reader on the bytes of b from position i (1-based)
LfhFromBytes(b, i) ==
    [version |-> ReadLE(b, i, 2), flags |-> FlagFromU16(ReadLE(b, i + 2, 2)),
     compression |-> ReadLE(b, i + 4, 2), mod_time |-> ReadLE(b, i + 6, 2),
     mod_date |-> ReadLE(b, i + 8, 2), crc |-> ReadLE(b, i + 10, 4),
     compressed_size |-> ReadLE(b, i + 14, 4), uncompressed_size |-> ReadLE(b, i + 18, 4),
     file_name_length |-> ReadLE(b, i + 22, 2), extra_field_length |-> ReadLE(b, i + 24, 2)]

\* CentralDirectoryHeader::as_slice: the 42 bytes that follow the signature
CdhAsSlice(h) ==
    U16LE(h.v_made_by) \o U16LE(h.v_needed) \o U16LE(FlagToU16(h.flags))
        \o U16LE(h.compression) \o U16LE(h.mod_time) \o U16LE(h.mod_date)
        \o U32LE(h.crc) \o U32LE(h.compressed_size) \o U32LE(h.uncompressed_size)
        \o U16LE(h.file_name_length) \o U16LE(h.extra_field_length)
        \o U16LE(h.file_comment_length) \o U16LE(h.disk_start) \o U16LE(h.inter_attr)
        \o U32LE(h.exter_attr) \o U32LE(h.lh_offset)

CdhFromBytes(b, i) ==
    [v_made_by |-> ReadLE(b, i, 2), v_needed |-> ReadLE(b, i + 2, 2),
     flags |-> FlagFromU16(ReadLE(b, i + 4, 2)), compression |-> ReadLE(b, i + 6, 2),
     mod_time |-> ReadLE(b, i + 8, 2), mod_date |-> ReadLE(b, i + 10, 2),
     crc |-> ReadLE(b, i + 12, 4), compressed_size |-> ReadLE(b, i + 16, 4),
     uncompressed_size |-> ReadLE(b, i + 20, 4), file_name_length |-> ReadLE(b, i + 24, 2),
     extra_field_length |-> ReadLE(b, i + 26, 2), file_comment_length |-> ReadLE(b, i + 28, 2),
     disk_start |-> ReadLE(b, i + 30, 2), inter_attr |-> ReadLE(b, i + 32, 2),
     exter_attr |-> ReadLE(b, i + 34, 4), lh_offset |-> ReadLE(b, i + 38, 4)]

CdhSize == 42

\* EndOfCentralDirectoryHeader::as_slice: the 18 bytes that follow the signature
EocdAsSlice(h) ==
    U16LE(h.disk_num) \o U16LE(h.start_cent_dir_disk) \o U16LE(h.num_of_entries_disk)
        \o U16LE(h.num_of_entries) \o U32LE(h.size_cent_dir) \o U32LE(h.cent_dir_offset)
        \o U16LE(h.file_comm_length)

EocdFromBytes(b, i) ==
    [disk_num |-> ReadLE(b, i, 2), start_cent_dir_disk |-> ReadLE(b, i + 2, 2),
     num_of_entries_disk |-> ReadLE(b, i + 4, 2), num_of_entries |-> ReadLE(b, i + 6, 2),
     size_cent_dir |-> ReadLE(b, i + 8, 4), cent_dir_offset |-> ReadLE(b, i + 12, 4),
     file_comm_length |-> ReadLE(b, i + 16, 2)]

EocdSize == 18

\* crate::spec::version
AsNeededToExtract(options) == IF options.compression = Deflate THEN 20 ELSE 10

AsMadeBy == 831

(***************************************************************************)
(* State.                                                                  *)
(***************************************************************************)
VARIABLES
    out,          \* the bytes the sink W has accepted, in order
    cd_entries,   \* ZipFileWriter.cd_entries
    comment_opt,  \* ZipFileWriter.comment_opt
    zw,           \* the ZipFileWriter: "open", or consumed by close: "closed", "failed"
    ew,           \* the live EntryStreamWriter, if any
    started,      \* entries begun so far (stream or whole)
    ioErrors,     \* I/O errors the sink has raised so far
    log,          \* history: one record per entry begun, in order
    cd_offset,    \* history: the offset ZipFileWriter::close read first (0 before)
    zr,           \* the ZipFileReader opened on the file the sink wrote, if any
    readers,      \* what each entry_reader call returned, until it is dropped
    cursor,       \* the position of each open file handle
    patches       \* fields of the finished file overwritten so far

wvars == << out, cd_entries, comment_opt, zw, ew, started, ioErrors, log, cd_offset >>

rvars == << zr, readers, cursor, patches >>

\* AsyncOffsetWriter::offset of ZipFileWriter.writer: the sink starts empty
Offset(bytes) == Len(bytes)

(***************************************************************************)
(* write_all on the sink, one call per buffer of bufs, in order.  fail = 0 *)
(* is success; fail = k makes the k-th call fail after `partial` bytes of  *)
(* its buffer were accepted.  An empty buffer reaches no write and cannot  *)
(* fail.                                                                   *)
(***************************************************************************)
MayFail(bufs, fail, partial) ==
    \/ fail = 0 /\ partial = 0
    \/ /\ fail \in 1 .. Len(bufs)
       /\ partial < Len(bufs[fail])
       /\ ioErrors < MaxIoErrors

\* a sequence of writes that goes on with the next buffer after a failure
WriteAllSeqContinue(bufs, fail, partial) ==
    IF fail = 0 THEN Concat(bufs)
    ELSE Concat(SubSeq(bufs, 1, fail - 1)) \o SubSeq(bufs[fail], 1, partial)
            \o Concat(SubSeq(bufs, fail + 1, Len(bufs)))

WriteAllSeq(bufs, fail, partial) ==
    IF fail = 0 THEN Concat(bufs)
    ELSE Concat(SubSeq(bufs, 1, fail - 1)) \o SubSeq(bufs[fail], 1, partial)

Partials == 0 .. 1

(***************************************************************************)
(* EntryStreamWriter                                                       *)
(***************************************************************************)
\* chrono_to_zip_time(&Utc::now()): the clock reading of the k-th entry
ZipTime(k) == [mod_time |-> k, mod_date |-> 33]

\* a local header that announces no trailing descriptor
StreamLfhNoDescriptor(options, now) ==
    [compressed_size |-> 0,
     uncompressed_size |-> 0,
     compression |-> CompressionToU16(options.compression),
     crc |-> 0,
     extra_field_length |-> AsU16(Len(options.extra)),
     file_name_length |-> AsU16(Len(options.filename)),
     mod_time |-> now.mod_time,
     mod_date |-> now.mod_date,
     version |-> AsNeededToExtract(options),
     flags |-> GeneralPurposeFlag(FALSE, FALSE, ~IsAscii(options.filename))]

\* write_lfh: the header value
StreamLfh(options, now) ==
    [compressed_size |-> 0,
     uncompressed_size |-> 0,
     compression |-> CompressionToU16(options.compression),
     crc |-> 0,
     extra_field_length |-> AsU16(Len(options.extra)),
     file_name_length |-> AsU16(Len(options.filename)),
     mod_time |-> now.mod_time,
     mod_date |-> now.mod_date,
     version |-> AsNeededToExtract(options),
     flags |-> GeneralPurposeFlag(TRUE, FALSE, ~IsAscii(options.filename))]

\* write_lfh: the buffers handed to write_all, in order
LfhBufs(lfh, options) ==
    << LOCAL_FILE_HEADER, LfhAsSlice(lfh), options.filename, options.extra >>

\* a from_raw that reads the offset of the header once the header is written
NewEntryWriterOffsetAfterHeader(options, lfh, lfh_offset, data_offset) ==
    [options |-> options, hasher |-> HasherNew, lfh |-> lfh, lfh_offset |-> data_offset,
     data_offset |-> data_offset, uoffset |-> 0, pending |-> << >>, shut |-> FALSE,
     supplied |-> << >>]

\* from_raw: the writer value returned
NewEntryWriter(options, lfh, lfh_offset, data_offset) ==
    [options |-> options, hasher |-> HasherNew, lfh |-> lfh, lfh_offset |-> lfh_offset,
     data_offset |-> data_offset,
     uoffset |-> 0,        \* the outer AsyncOffsetWriter's count
     pending |-> << >>,    \* bytes the compression adapter holds back
     shut |-> FALSE,       \* the adapter has been shut down
     supplied |-> << >>]   \* history: the bytes accepted from the caller

LogStart(kind, options, lfh_offset) ==
    [kind |-> kind, state |-> "open", options |-> options, lfh_offset |-> lfh_offset,
     data_offset |-> 0, end_offset |-> 0, supplied |-> << >>,
     crc |-> 0, compressed_size |-> 0, uncompressed_size |-> 0]

\* the state of the entry under construction, in the history
SetLast(l, fields) ==
    [l EXCEPT ![Len(l)] = [k \in DOMAIN l[Len(l)] |->
                            IF k \in DOMAIN fields THEN fields[k] ELSE l[Len(l)][k]]]

\* a ZipFileWriter that can be used while an entry writer is live
WriterFreeAlways == TRUE

\* The EntryStreamWriter holds the `&mut ZipFileWriter` it was made from for
\* its lifetime 'b: the ZipFileWriter can be used only while no entry writer
\* is live.
WriterFree == ew = None

\* ZipFileWriter::write_entry_stream -> EntryStreamWriter::from_raw
WriteEntryStream(options, fail, partial) ==
    LET lfh_offset == Offset(out)
        lfh == StreamLfh(options, ZipTime(started + 1))
        bufs == LfhBufs(lfh, options)
        out1 == out \o WriteAllSeq(bufs, fail, partial)
        data_offset == Offset(out1)
    IN  /\ zw = "open"
        /\ WriterFree
        /\ started < MaxEntries
        /\ MayFail(bufs, fail, partial)
        /\ out' = out1
        /\ started' = started + 1
        /\ IF fail = 0
           THEN /\ ew' = Some(NewEntryWriter(options, lfh, lfh_offset, data_offset))
                /\ ioErrors' = ioErrors
                /\ log' = Append(log, [LogStart("stream", options, lfh_offset)
                                        EXCEPT !.data_offset = data_offset])
           ELSE /\ ew' = None
                /\ ioErrors' = ioErrors + 1
                /\ log' = Append(log, [LogStart("stream", options, lfh_offset)
                                        EXCEPT !.state = "failed"])
        /\ UNCHANGED << cd_entries, comment_opt, zw >>
        /\ UNCHANGED << rvars, cd_offset >>

\* a poll_write that hashes the buffer before it polls the inner writer
HasherAfterPollEager(h, buf, answer, written) == HasherUpdate(h, buf)

\* a poll_write that hashes the buffer it was given, not the accepted prefix
HasherAfterPollWholeBuf(h, buf, answer, written) ==
    IF answer = "ok" THEN HasherUpdate(h, buf) ELSE h

\* poll_write: the hasher after the inner writer answered the poll
HasherAfterPoll(h, buf, answer, written) ==
    IF answer = "ok" THEN HasherUpdate(h, SubSeq(buf, 1, written)) ELSE h

\* the chunks a caller may pass next: any piece of what remains of a payload
NextChunks(supplied) ==
    UNION { { SubSeq(p, Len(supplied) + 1, n) : n \in Len(supplied) .. Len(p) } :
            p \in { q \in Payloads : IsPrefix(supplied, q) } }

\* AsyncWrite::poll_write(buf) with the inner writer's answer: "pending", "err",
\* or "ok" with the number of bytes it accepted
PollWrite(buf, answer, written) ==
    /\ IsSome(ew)
    /\ LET w == Unwrap(ew)
           c == w.options.compression
           accepted == IF answer = "ok" THEN SubSeq(buf, 1, written) ELSE << >>
       IN  /\ ~(c = Deflate /\ w.shut)
           /\ written <= Len(buf)
           /\ answer # "ok" => written = 0
           /\ answer = "err" => ioErrors < MaxIoErrors
           /\ ioErrors' = IF answer = "err" THEN ioErrors + 1 ELSE ioErrors
           /\ out' = out \o EmitOnWrite(c, accepted)
           /\ ew' = Some([w EXCEPT
                    !.pending = PendingOnWrite(c, w.pending, accepted),
                    !.uoffset = w.uoffset + Len(accepted),
                    !.hasher = HasherAfterPoll(w.hasher, buf, answer, written),
                    !.supplied = w.supplied \o accepted])
           /\ log' = SetLast(log, [supplied |-> w.supplied \o accepted])
    /\ UNCHANGED << cd_entries, comment_opt, zw, started >>
    /\ UNCHANGED << rvars, cd_offset >>

\* AsyncWrite::poll_flush
PollFlush ==
    /\ IsSome(ew)
    /\ LET w == Unwrap(ew)
       IN  /\ out' = out \o EmitOnFlush(w.options.compression, w.pending)
           /\ ew' = Some([w EXCEPT !.pending = << >>])
    /\ UNCHANGED << cd_entries, comment_opt, zw, started, ioErrors, log >>
    /\ UNCHANGED << rvars, cd_offset >>

\* what a shutdown of the adapter emits: nothing once it has been shut down
ShutdownBytes(w) ==
    IF w.shut THEN << >> ELSE EmitOnShutdown(w.options.compression, w.pending)

\* AsyncWrite::poll_shutdown
PollShutdown ==
    /\ IsSome(ew)
    /\ LET w == Unwrap(ew)
       IN  /\ out' = out \o ShutdownBytes(w)
           /\ ew' = Some([w EXCEPT !.pending = << >>, !.shut = TRUE])
    /\ UNCHANGED << cd_entries, comment_opt, zw, started, ioErrors, log >>
    /\ UNCHANGED << rvars, cd_offset >>

\* sizes taken from the offset before the adapter is shut down
CloseSizesBeforeShutdown(w, sink, shutBytes) ==
    [crc |-> HasherFinalize(w.hasher),
     uncompressed_size |-> AsU32(w.uoffset),
     compressed_size |-> AsU32(Offset(sink) - w.data_offset)]

\* close: the CRC and the sizes, computed once self.writer.shutdown() has
\* returned; `sink` is the sink before the shutdown, which emitted shutBytes
CloseSizes(w, sink, shutBytes) ==
    [crc |-> HasherFinalize(w.hasher),
     uncompressed_size |-> AsU32(w.uoffset),
     compressed_size |-> AsU32(Offset(sink \o shutBytes) - w.data_offset)]

\* close: the trailing descriptor, as the buffers handed to write_all
DescriptorBufs(crc, compressed_size, uncompressed_size) ==
    << DATA_DESCRIPTOR, U32LE(crc), U32LE(compressed_size), U32LE(uncompressed_size) >>

\* a directory header that does not take its time from the local header
StreamCdhOtherTime(w, crc, compressed_size, uncompressed_size) ==
    [compressed_size |-> compressed_size,
     uncompressed_size |-> uncompressed_size,
     crc |-> crc,
     v_made_by |-> AsMadeBy,
     v_needed |-> w.lfh.version,
     compression |-> w.lfh.compression,
     extra_field_length |-> w.lfh.extra_field_length,
     file_name_length |-> w.lfh.file_name_length,
     file_comment_length |-> AsU16(Len(w.options.comment)),
     mod_time |-> 0,
     mod_date |-> w.lfh.mod_date,
     flags |-> w.lfh.flags,
     disk_start |-> 0,
     inter_attr |-> 0,
     exter_attr |-> 0,
     lh_offset |-> AsU32(w.lfh_offset)]

\* close: the central directory header
StreamCdh(w, crc, compressed_size, uncompressed_size) ==
    [compressed_size |-> compressed_size,
     uncompressed_size |-> uncompressed_size,
     crc |-> crc,
     v_made_by |-> AsMadeBy,
     v_needed |-> w.lfh.version,
     compression |-> w.lfh.compression,
     extra_field_length |-> w.lfh.extra_field_length,
     file_name_length |-> w.lfh.file_name_length,
     file_comment_length |-> AsU16(Len(w.options.comment)),
     mod_time |-> w.lfh.mod_time,
     mod_date |-> w.lfh.mod_date,
     flags |-> w.lfh.flags,
     disk_start |-> 0,
     inter_attr |-> 0,
     exter_attr |-> 0,
     lh_offset |-> AsU32(w.lfh_offset)]

CentralDirectoryEntry(header, opts) == [header |-> header, opts |-> opts]

\* EntryStreamWriter::close.  Call 1 of `fail` is the shutdown, calls 2..5 are
\* the four descriptor writes.
CloseEntry(fail, partial) ==
    /\ IsSome(ew)
    /\ LET w == Unwrap(ew)
           shutBytes == ShutdownBytes(w)
           sizes == CloseSizes(w, out, shutBytes)
           crc == sizes.crc
           uncompressed_size == sizes.uncompressed_size
           compressed_size == sizes.compressed_size
           bufs == << shutBytes >> \o DescriptorBufs(crc, compressed_size, uncompressed_size)
           cdh == StreamCdh(w, crc, compressed_size, uncompressed_size)
       IN  /\ MayFail(bufs, fail, partial)
           /\ out' = out \o WriteAllSeq(bufs, fail, partial)
           /\ IF fail = 0
              THEN /\ cd_entries' = Append(cd_entries, CentralDirectoryEntry(cdh, w.options))
                   /\ ioErrors' = ioErrors
                   /\ log' = SetLast(log, [state |-> "closed", end_offset |-> Offset(out'),
                                           crc |-> crc, compressed_size |-> compressed_size,
                                           uncompressed_size |-> uncompressed_size])
              ELSE /\ cd_entries' = cd_entries
                   /\ ioErrors' = ioErrors + 1
                   /\ log' = SetLast(log, [state |-> "failed"])
    /\ ew' = None
    /\ UNCHANGED << comment_opt, zw, started >>
    /\ UNCHANGED << rvars, cd_offset >>

\* the EntryStreamWriter goes out of scope without close: no Drop code runs
DropEntry ==
    /\ IsSome(ew)
    /\ ew' = None
    /\ log' = SetLast(log, [state |-> "dropped"])
    /\ UNCHANGED << out, cd_entries, comment_opt, zw, started, ioErrors >>
    /\ UNCHANGED << rvars, cd_offset >>

(***************************************************************************)
(* ZipFileWriter                                                           *)
(***************************************************************************)
\* EntryWholeWriter: the compressed payload of data known upfront
CompressWhole(c, data) == EmitOnWrite(c, data) \o EmitOnShutdown(c, PendingOnWrite(c, << >>, data))

WholeLfh(options, now, data, compressed) ==
    [compressed_size |-> AsU32(Len(compressed)),
     uncompressed_size |-> AsU32(Len(data)),
     compression |-> CompressionToU16(options.compression),
     crc |-> Crc32(data),
     extra_field_length |-> AsU16(Len(options.extra)),
     file_name_length |-> AsU16(Len(options.filename)),
     mod_time |-> now.mod_time,
     mod_date |-> now.mod_date,
     version |-> AsNeededToExtract(options),
     flags |-> GeneralPurposeFlag(FALSE, FALSE, ~IsAscii(options.filename))]

WholeCdh(lfh, options, lfh_offset) ==
    [compressed_size |-> lfh.compressed_size,
     uncompressed_size |-> lfh.uncompressed_size,
     crc |-> lfh.crc,
     v_made_by |-> AsMadeBy,
     v_needed |-> lfh.version,
     compression |-> lfh.compression,
     extra_field_length |-> lfh.extra_field_length,
     file_name_length |-> lfh.file_name_length,
     file_comment_length |-> AsU16(Len(options.comment)),
     mod_time |-> lfh.mod_time,
     mod_date |-> lfh.mod_date,
     flags |-> lfh.flags,
     disk_start |-> 0,
     inter_attr |-> 0,
     exter_attr |-> 0,
     lh_offset |-> AsU32(lfh_offset)]

\* ZipFileWriter::write_entry_whole -> EntryWholeWriter::write
WriteEntryWhole(options, data, fail, partial) ==
    LET lfh_offset == Offset(out)
        compressed == CompressWhole(options.compression, data)
        lfh == WholeLfh(options, ZipTime(started + 1), data, compressed)
        bufs == LfhBufs(lfh, options) \o << compressed >>
        cdh == WholeCdh(lfh, options, lfh_offset)
    IN  /\ zw = "open"
        /\ WriterFree
        /\ started < MaxEntries
        /\ MayFail(bufs, fail, partial)
        /\ out' = out \o WriteAllSeq(bufs, fail, partial)
        /\ started' = started + 1
        /\ IF fail = 0
           THEN /\ cd_entries' = Append(cd_entries, CentralDirectoryEntry(cdh, options))
                /\ ioErrors' = ioErrors
                /\ log' = Append(log, [LogStart("whole", options, lfh_offset) EXCEPT
                            !.state = "closed",
                            !.data_offset = Offset(out') - Len(compressed),
                            !.end_offset = Offset(out'),
                            !.supplied = data,
                            !.crc = lfh.crc,
                            !.compressed_size = lfh.compressed_size,
                            !.uncompressed_size = lfh.uncompressed_size])
           ELSE /\ cd_entries' = cd_entries
                /\ ioErrors' = ioErrors + 1
                /\ log' = Append(log, [LogStart("whole", options, lfh_offset)
                                        EXCEPT !.state = "failed"])
        /\ UNCHANGED << comment_opt, zw, ew >>
        /\ UNCHANGED << rvars, cd_offset >>

\* ZipFileWriter::comment
Comment(comment) ==
    /\ zw = "open"
    /\ WriterFree
    /\ comment_opt' = Some(comment)
    /\ UNCHANGED << out, cd_entries, zw, ew, started, ioErrors, log >>
    /\ UNCHANGED << rvars, cd_offset >>

\* close: the buffers written for one directory entry
CdEntryBufs(entry) ==
    << CENTRAL_DIRECTORY_FILE_HEADER, CdhAsSlice(entry.header), entry.opts.filename,
       entry.opts.extra, entry.opts.comment >>

\* a loop that walks cd_entries from the last entry to the first
RECURSIVE CdBufsReversed(_)
CdBufsReversed(entries) ==
    IF entries = << >> THEN << >>
    ELSE CdBufsReversed(Tail(entries)) \o CdEntryBufs(Head(entries))

\* close: the buffers written by the loop over cd_entries
RECURSIVE CdBufs(_)
CdBufs(entries) ==
    IF entries = << >> THEN << >> ELSE CdEntryBufs(Head(entries)) \o CdBufs(Tail(entries))

\* an end record that takes the offset after the directory as its start
EocdHeaderOffsetAtEnd(entries, start, end_offset, comment) ==
    [disk_num |-> 0,
     start_cent_dir_disk |-> 0,
     num_of_entries_disk |-> AsU16(Len(entries)),
     num_of_entries |-> AsU16(Len(entries)),
     size_cent_dir |-> AsU32(end_offset - start),
     cent_dir_offset |-> AsU32(end_offset),
     file_comm_length |-> IF IsSome(comment) THEN AsU16(Len(Unwrap(comment))) ELSE 0]

\* close: the end of central directory header
EocdHeader(entries, start, end_offset, comment) ==
    [disk_num |-> 0,
     start_cent_dir_disk |-> 0,
     num_of_entries_disk |-> AsU16(Len(entries)),
     num_of_entries |-> AsU16(Len(entries)),
     size_cent_dir |-> AsU32(end_offset - start),
     cent_dir_offset |-> AsU32(start),
     file_comm_length |-> IF IsSome(comment) THEN AsU16(Len(Unwrap(comment))) ELSE 0]

\* close: the buffers written after the loop
EocdBufs(header, comment) ==
    << END_OF_CENTRAL_DIRECTORY, EocdAsSlice(header) >>
        \o (IF IsSome(comment) THEN << Unwrap(comment) >> ELSE << >>)

\* ZipFileWriter::close
Close(fail, partial) ==
    LET start == Offset(out)
        cdBufs == CdBufs(cd_entries)
        header == EocdHeader(cd_entries, start, start + Len(Concat(cdBufs)), comment_opt)
        bufs == cdBufs \o EocdBufs(header, comment_opt)
    IN  /\ zw = "open"
        /\ WriterFree
        /\ MayFail(bufs, fail, partial)
        /\ out' = out \o WriteAllSeq(bufs, fail, partial)
        /\ cd_offset' = start
        /\ zw' = IF fail = 0 THEN "closed" ELSE "failed"
        /\ ioErrors' = IF fail = 0 THEN ioErrors ELSE ioErrors + 1
        /\ UNCHANGED << cd_entries, comment_opt, ew, started, log >>
        /\ UNCHANGED rvars

(***************************************************************************)
(* Central directory engine (crate::read::seek::read_cd).                  *)
(***************************************************************************)
ZipEntry(h, filename, comment) ==
    [filename |-> filename, comment |-> comment,
     compression |-> CompressionFromU16(h.compression),
     compressed_size |-> h.compressed_size, uncompressed_size |-> h.uncompressed_size,
     crc |-> h.crc, offset |-> h.lh_offset, data_descriptor |-> h.flags.data_descriptor,
     mod_time |-> h.mod_time, mod_date |-> h.mod_date]

Err(kind) == [ok |-> FALSE, err |-> kind]

\* n central directory headers from position pos (1-based), each with its
\* filename, extra and comment bytes
RECURSIVE ParseCd(_, _, _)
ParseCd(file, pos, n) ==
    IF n = 0 THEN [ok |-> TRUE, entries |-> << >>]
    ELSE IF ~MatchAt(file, pos, CENTRAL_DIRECTORY_FILE_HEADER) THEN Err("EntryCountMismatch")
    ELSE IF pos + 4 + CdhSize - 1 > Len(file) THEN Err("TruncatedData")
    ELSE LET h == CdhFromBytes(file, pos + 4)
             nameAt == pos + 4 + CdhSize
             extraAt == nameAt + h.file_name_length
             commentAt == extraAt + h.extra_field_length
             next == commentAt + h.file_comment_length
         IN  IF next - 1 > Len(file) THEN Err("TruncatedData")
             ELSE LET rest == ParseCd(file, next, n - 1)
                  IN  IF ~rest.ok THEN rest
                      ELSE [ok |-> TRUE,
                            entries |-> << ZipEntry(h, SubSeq(file, nameAt, extraAt - 1),
                                                    SubSeq(file, commentAt, next - 1)) >>
                                            \o rest.entries]

\* read_cd: the entry table and the archive comment of a finished archive
ReadCd(file) ==
    LET p == FindLast(file, END_OF_CENTRAL_DIRECTORY)
    IN  IF p = 0 THEN Err("MalformedArchive")
        ELSE IF p + 4 + EocdSize - 1 > Len(file) THEN Err("TruncatedData")
        ELSE LET eocd == EocdFromBytes(file, p + 4)
                 commentAt == p + 4 + EocdSize
                 cd == ParseCd(file, eocd.cent_dir_offset + 1, eocd.num_of_entries)
             IN  IF commentAt + eocd.file_comm_length - 1 > Len(file) THEN Err("TruncatedData")
                 ELSE IF ~cd.ok THEN cd
                 ELSE [ok |-> TRUE, entries |-> cd.entries,
                       comment |-> IF eocd.file_comm_length = 0 THEN None
                                   ELSE Some(SubSeq(file, commentAt,
                                                    commentAt + eocd.file_comm_length - 1))]

(***************************************************************************)
(* ZipFileReader                                                           *)
(***************************************************************************)
\* the file handles a reader may hold
Handles == { 1, 2 }

Min(a, b) == IF a <= b THEN a ELSE b

\* ZipFileReader::new on the file the writer left behind
New ==
    /\ zw # "open"
    /\ zr = None
    /\ ReadCd(out).ok
    /\ zr' = Some([entries |-> ReadCd(out).entries, comment |-> ReadCd(out).comment])
    /\ UNCHANGED << readers, cursor, patches >>
    /\ UNCHANGED wvars

\* entry_reader: the distance skipped after the local header
\* ((file_name_length + extra_field_length) as i64, a u16 sum)
SkipDistance(header) == AsU16(header.file_name_length + header.extra_field_length)

\* a reader that keeps one File and lends it to every entry reader
OpenHandleShared(r) == 1

\* entry_reader: File::open(&self.filename), a handle of the call's own
OpenHandle(r) == r

\* a reader that believes the size field of the local header
KnownSizeFromLfh(entry, header) == header.compressed_size

\* entry_reader: entry.compressed_size, the limit of take()
KnownSize(entry, header) == entry.compressed_size

\* a reader that never scans for the descriptor
IsDelimitedNever(entry, header) == FALSE

\* entry_reader: entry.data_descriptor(), which selects the framing
IsDelimited(entry, header) == entry.data_descriptor

\* an index taken modulo the number of entries
EntryGetWrapping(entries, index) ==
    IF entries = << >> THEN None ELSE Some(entries[(index % Len(entries)) + 1])

\* entry_reader: self.entries.get(index)
EntryGet(entries, index) ==
    IF index < Len(entries) THEN Some(entries[index + 1]) ELSE None

\* entry_reader(index), with the I/O operation that fails (0: none; 1: open,
\* 2: seek, 3: header read, 4: seek).  io counts the I/O operations begun.
EntryReaderResult(entries, file, index, ioFail, handle) ==
    IF ~IsSome(EntryGet(entries, index)) THEN [res |-> "EntryIndexOutOfBounds", io |-> 0]
    ELSE LET entry == Unwrap(EntryGet(entries, index))
             headerAt == entry.offset + 4
         IN  IF ioFail = 1 THEN [res |-> "Io", io |-> 1]
             ELSE IF ioFail = 2 THEN [res |-> "Io", io |-> 2]
             ELSE IF ioFail = 3 \/ headerAt + LfhSize > Len(file) THEN [res |-> "Io", io |-> 3]
             ELSE IF ioFail = 4 THEN [res |-> "Io", io |-> 4]
             ELSE LET header == LfhFromBytes(file, headerAt + 1)
                  IN  [res |-> "Ok", io |-> 4, handle |-> handle,
                       start |-> headerAt + LfhSize + SkipDistance(header),
                       delimited |-> IsDelimited(entry, header),
                       size |-> IF IsDelimited(entry, header) THEN 0
                                ELSE KnownSize(entry, header),
                       limit |-> IF IsDelimited(entry, header) THEN 0
                                 ELSE KnownSize(entry, header),
                       compression |-> entry.compression,
                       raw |-> << >>, eof |-> FALSE]

\* entry_reader: the u16 sum header.file_name_length + header.extra_field_length
\* exceeds u16::MAX
SkipOverflows(header) == header.file_name_length + header.extra_field_length >= Pow2(16)

\* entry_reader as built: with overflow checks (the debug profile) the u16 sum
\* panics on overflow, without them (the release profile) it wraps, which is
\* what EntryReaderResult computes.  The sum is taken once the header has
\* been read and before the second seek.
EntryReaderOutcome(entries, file, index, ioFail, handle, overflow_checks) ==
    LET got == EntryReaderResult(entries, file, index, ioFail, handle)
    IN  IF /\ overflow_checks
           /\ got.res = "Ok" \/ (got.res = "Io" /\ got.io = 4)
           /\ SkipOverflows(LfhFromBytes(file, Unwrap(EntryGet(entries, index)).offset + 5))
        THEN [res |-> "Panic", io |-> 3]
        ELSE got

\* ZipFileReader::entry_reader
EntryReader(r, index, ioFail) ==
    /\ IsSome(zr)
    /\ readers[r] = None
    /\ \E overflow_checks \in BOOLEAN :
       LET got == EntryReaderOutcome(Unwrap(zr).entries, out, index, ioFail, OpenHandle(r),
                                     overflow_checks)
       IN  /\ readers' = [readers EXCEPT ![r] =
                            Some([call |-> [index |-> index, ioFail |-> ioFail], got |-> got])]
           /\ cursor' = IF got.res = "Ok" THEN [cursor EXCEPT ![got.handle] = got.start]
                        ELSE cursor
    /\ UNCHANGED << zr, patches >>
    /\ UNCHANGED wvars

\* the file with the bytes from offset pos on replaced by `bytes`
Overwrite(file, pos, bytes) ==
    [k \in 1 .. Len(file) |->
        IF k \in (pos + 1) .. (pos + Len(bytes)) THEN bytes[k - pos] ELSE file[k]]

\* the header fields of the finished file that another party may overwrite
PatchFields ==
    { "cd_compressed_size", "cd_lh_offset", "lfh_compressed_size", "lfh_flags",
      "lfh_file_name_length" }

\* the offset in the file of `field` of the i-th entry
PatchAt(i, field) ==
    LET cdh == cd_offset + Len(Concat(CdBufs(SubSeq(cd_entries, 1, i - 1))))
        lfh == cd_entries[i].header.lh_offset
    IN  CASE field = "cd_compressed_size" -> cdh + 4 + 16
          [] field = "cd_lh_offset" -> cdh + 4 + 38
          [] field = "lfh_compressed_size" -> lfh + 4 + 14
          [] field = "lfh_flags" -> lfh + 4 + 2
          [] field = "lfh_file_name_length" -> lfh + 4 + 22

\* the bytes written over `field`: a size or an offset that reaches the end of
\* the file, another size, the other value of the data-descriptor flag, the
\* largest length
PatchBytes(i, field) ==
    CASE field = "cd_compressed_size" -> U32LE(Len(out))
      [] field = "cd_lh_offset" -> U32LE(Len(out))
      [] field = "lfh_compressed_size" -> U32LE(cd_entries[i].header.compressed_size + 1)
      [] field = "lfh_flags" ->
            U16LE(FlagToU16([cd_entries[i].header.flags EXCEPT
                                !.data_descriptor = ~cd_entries[i].header.flags.data_descriptor]))
      [] field = "lfh_file_name_length" -> U16LE(Pow2(16) - 1)

\* the file the writer finished is changed before a ZipFileReader opens it
PatchStore(i, field) ==
    /\ zw = "closed"
    /\ zr = None
    /\ patches < MaxPatches
    /\ i \in 1 .. Len(cd_entries)
    /\ out' = Overwrite(out, PatchAt(i, field), PatchBytes(i, field))
    /\ patches' = patches + 1
    /\ UNCHANGED << cd_entries, comment_opt, zw, ew, started, ioErrors, log, cd_offset >>
    /\ UNCHANGED << zr, readers, cursor >>

\* the raw bytes a reader may still take from position pos of the file
Framed(file, pos, delimited, limit) ==
    LET found == FindFirst(file, pos + 1, DATA_DESCRIPTOR)
        last == IF delimited THEN (IF found = 0 THEN Len(file) ELSE found - 1)
                ELSE Min(pos + limit, Len(file))
    IN  SubSeq(file, pos + 1, last)

\* one read of at most n raw bytes through the reader held in slot r
ReadStep(r, n) ==
    /\ IsSome(readers[r])
    /\ LET rd == Unwrap(readers[r]).got
       IN  /\ rd.res = "Ok"
           /\ ~rd.eof
           /\ LET pos == cursor[rd.handle]
                  rest == Framed(out, pos, rd.delimited, rd.limit)
                  got == SubSeq(rest, 1, Min(n, Len(rest)))
              IN  /\ readers' = [readers EXCEPT ![r] = Some([Unwrap(readers[r]) EXCEPT
                                    !.got = [rd EXCEPT
                                        !.raw = rd.raw \o got,
                                        !.limit = IF rd.delimited THEN 0 ELSE rd.limit - Len(got),
                                        !.eof = (got = << >>)]])]
                  /\ cursor' = [cursor EXCEPT ![rd.handle] = pos + Len(got)]
    /\ UNCHANGED << zr, patches >>
    /\ UNCHANGED wvars

\* the value entry_reader returned goes out of scope
DropReader(r) ==
    /\ IsSome(readers[r])
    /\ readers' = [readers EXCEPT ![r] = None]
    /\ cursor' = IF Unwrap(readers[r]).got.res = "Ok"
                 THEN [cursor EXCEPT ![Unwrap(readers[r]).got.handle] = 0]
                 ELSE cursor
    /\ UNCHANGED << zr, patches >>
    /\ UNCHANGED wvars

\* the sizes of one read
ReadSizes == { 1, 3 }

(***************************************************************************)
(* Specifications                                                          *)
(***************************************************************************)
vars == << wvars, rvars >>

\* ZipFileWriter::new on an empty sink
Init ==
    /\ out = << >>
    /\ cd_offset = 0
    /\ cd_entries = << >>
    /\ comment_opt = None
    /\ zw = "open"
    /\ ew = None
    /\ started = 0
    /\ ioErrors = 0
    /\ log = << >>
    /\ zr = None
    /\ readers = [r \in Handles |-> None]
    /\ cursor = [h \in Handles |-> 0]
    /\ patches = 0

\* the chunks the caller of poll_write may pass in the current state
Chunks == NextChunks(IF IsSome(ew) THEN Unwrap(ew).supplied ELSE << >>)

\* Spec: the sink accepts every write and every entry writer is closed; the
\* archive is then read through one entry reader at a time.
Next ==
    \/ \E o \in OptionsSet : WriteEntryStream(o, 0, 0)
    \/ \E b \in Chunks : \E a \in {"pending", "ok"}, n \in 0 .. Len(b) : PollWrite(b, a, n)
    \/ PollFlush
    \/ PollShutdown
    \/ CloseEntry(0, 0)
    \/ \E o \in OptionsSet, d \in WholePayloads : WriteEntryWhole(o, d, 0, 0)
    \/ \E c \in Comments : Comment(c)
    \/ Close(0, 0)
    \/ New
    \/ \E i \in 0 .. MaxEntries, f \in 0 .. 4 : EntryReader(1, i, f)
    \/ ReadStep(1, Len(out))
    \/ DropReader(1)

Spec == Init /\ [][Next]_vars

\* SpecRead: every payload is written by one poll_write, and the archive is
\* read through two entry readers whose reads interleave.
NextRead ==
    \/ \E o \in OptionsSet : WriteEntryStream(o, 0, 0)
    \/ \E b \in Payloads : IsSome(ew) /\ Unwrap(ew).supplied = << >> /\ PollWrite(b, "ok", Len(b))
    \/ CloseEntry(0, 0)
    \/ \E o \in OptionsSet, d \in WholePayloads : WriteEntryWhole(o, d, 0, 0)
    \/ Close(0, 0)
    \/ New
    \/ \E r \in Handles, i \in 0 .. MaxEntries - 1 : EntryReader(r, i, 0)
    \/ \E r \in Handles, n \in ReadSizes : ReadStep(r, n)
    \/ \E r \in Handles : DropReader(r)

SpecRead == Init /\ [][NextRead]_vars

\* SpecIo: writes to the sink may fail and an entry writer may be discarded
\* without close.
NextIo ==
    \/ \E o \in OptionsSet, f \in 0 .. 4, p \in Partials : WriteEntryStream(o, f, p)
    \/ \E b \in Chunks : \E a \in {"pending", "err", "ok"}, n \in 0 .. Len(b) : PollWrite(b, a, n)
    \/ PollFlush
    \/ PollShutdown
    \/ \E f \in 0 .. 5, p \in Partials : CloseEntry(f, p)
    \/ DropEntry
    \/ \E o \in OptionsSet, d \in WholePayloads, f \in 0 .. 5, p \in Partials :
          WriteEntryWhole(o, d, f, p)
    \/ \E c \in Comments : Comment(c)
    \/ \E f \in 0 .. (5 * MaxEntries + 3), p \in Partials : Close(f, p)
    \/ New

SpecIo == Init /\ [][NextIo]_vars

\* SpecPatched: fields of the first entry of the finished file are changed by
\* another party before the file is opened and read.
NextPatched ==
    \/ \E o \in OptionsSet : WriteEntryStream(o, 0, 0)
    \/ \E b \in Payloads : IsSome(ew) /\ Unwrap(ew).supplied = << >> /\ PollWrite(b, "ok", Len(b))
    \/ CloseEntry(0, 0)
    \/ \E o \in OptionsSet, d \in WholePayloads : WriteEntryWhole(o, d, 0, 0)
    \/ Close(0, 0)
    \/ \E f \in PatchFields : PatchStore(1, f)
    \/ New
    \/ \E i \in 0 .. MaxEntries - 1 : EntryReader(1, i, 0)
    \/ ReadStep(1, Len(out))

SpecPatched == Init /\ [][NextPatched]_vars

\* an archive comment of u16::MAX + 1 bytes
WideComment == [k \in 1 .. Pow2(16) |-> 122]

\* SpecWide: archives whose comment may be longer than a 16-bit length holds.
NextWide ==
    \/ \E o \in OptionsSet : WriteEntryStream(o, 0, 0)
    \/ \E b \in Payloads : IsSome(ew) /\ Unwrap(ew).supplied = << >> /\ PollWrite(b, "ok", Len(b))
    \/ CloseEntry(0, 0)
    \/ \E o \in OptionsSet, d \in WholePayloads : WriteEntryWhole(o, d, 0, 0)
    \/ \E c \in Comments \cup { WideComment } : Comment(c)
    \/ Close(0, 0)

SpecWide == Init /\ [][NextWide]_vars

(***************************************************************************)
(* Properties                                                              *)
(***************************************************************************)
IsClosedEntry(e) == e.state = "closed"

\* the completed entries, in the order they were completed
ClosedLog == SelectSeq(log, IsClosedEntry)

Contains(s, d) == FindFirst(s, 1, d) # 0

DescriptorLen == Len(Concat(DescriptorBufs(0, 0, 0)))

\* the bytes a completed entry put between its header and what follows its payload
EmittedOf(e) ==
    SubSeq(out, e.data_offset + 1,
           IF e.kind = "stream" THEN e.end_offset - DescriptorLen ELSE e.end_offset)

\* the readers that have read their entry to the end
AtEof(r) ==
    /\ IsSome(readers[r])
    /\ Unwrap(readers[r]).got.res = "Ok"
    /\ Unwrap(readers[r]).got.eof

\* what the reader in slot r has read, decompressed, is the payload supplied for
\* its entry, and the CRC the archive reports for the entry is the payload's
ReadsBack(r) ==
    LET rd == Unwrap(readers[r]).got
        i == Unwrap(readers[r]).call.index + 1
    IN  /\ Decompress(rd.compression, rd.raw) = [ok |-> TRUE, data |-> ClosedLog[i].supplied]
        /\ Unwrap(zr).entries[i].crc = Crc32(ClosedLog[i].supplied)
        /\ Crc32(Decompress(rd.compression, rd.raw).data) = Unwrap(zr).entries[i].crc

StreamEntryOf(r) == ClosedLog[Unwrap(readers[r]).call.index + 1].kind = "stream"

\* C1 (as stated): every stream-written payload, in every chunking, reads back
\* as the payload supplied, with the CRC-32 of the payload.
C1_RoundTripAnyPayload ==
    \A r \in Handles : (AtEof(r) /\ StreamEntryOf(r)) => ReadsBack(r)

\* C1 (amended): every stream-written payload whose bytes in the archive (the
\* compressed payload) do not contain the data descriptor signature reads back,
\* in every chunking, as the payload supplied, with the CRC-32 of the payload.
C1_RoundTrip ==
    \A r \in Handles :
        ( /\ AtEof(r)
          /\ StreamEntryOf(r)
          /\ ~Contains(EmittedOf(ClosedLog[Unwrap(readers[r]).call.index + 1]), DATA_DESCRIPTOR) )
        => ReadsBack(r)

\* a deflated stream entry whose payload holds the signature bytes was read back
C1_Witness ==
    \E r \in Handles :
        /\ AtEof(r)
        /\ StreamEntryOf(r)
        /\ LET e == ClosedLog[Unwrap(readers[r]).call.index + 1]
           IN  /\ Contains(e.supplied, DATA_DESCRIPTOR)
               /\ ~Contains(EmittedOf(e), DATA_DESCRIPTOR)
        /\ ReadsBack(r)

\* the end of central directory header a finished archive holds
EocdOf(file) == EocdFromBytes(file, FindLast(file, END_OF_CENTRAL_DIRECTORY) + 4)

Filenames(entries) == [i \in 1 .. Len(entries) |-> entries[i].filename]

\* C2: the directory list holds one entry per completed entry, in completion
\* order; in a closed archive the end record counts them, and reading the
\* archive reports as many entries with the filenames in the order written.
C2_DirectoryOrder ==
    /\ Len(cd_entries) = Len(ClosedLog)
    /\ \A i \in 1 .. Len(cd_entries) :
          /\ cd_entries[i].opts = ClosedLog[i].options
          /\ cd_entries[i].header.lh_offset = ClosedLog[i].lfh_offset
    /\ zw = "closed" =>
          LET eocd == EocdOf(out)
              cd == ReadCd(out)
          IN  /\ eocd.num_of_entries = Len(ClosedLog)
              /\ eocd.num_of_entries_disk = Len(ClosedLog)
              /\ cd.ok
              /\ Len(cd.entries) = Len(ClosedLog)
              /\ Filenames(cd.entries)
                    = [i \in 1 .. Len(ClosedLog) |-> ClosedLog[i].options.filename]
    /\ IsSome(zr) =>
          /\ Len(Unwrap(zr).entries) = Len(ClosedLog)
          /\ Filenames(Unwrap(zr).entries)
                = [i \in 1 .. Len(ClosedLog) |-> ClosedLog[i].options.filename]

\* an archive of a stream entry and a whole entry with different names was read
C2_Witness ==
    /\ IsSome(zr)
    /\ Len(Unwrap(zr).entries) = 2
    /\ Unwrap(zr).entries[1].filename # Unwrap(zr).entries[2].filename
    /\ ClosedLog[1].kind # ClosedLog[2].kind

\* what reading entry `index` alone, from start to end, takes from the file
AloneRaw(index) ==
    LET g == EntryReaderResult(Unwrap(zr).entries, out, index, 0, 1)
    IN  Framed(out, g.start, g.delimited, g.size)

Live(r) == IsSome(readers[r]) /\ Unwrap(readers[r]).got.res = "Ok"

\* C3: however the reads of two entry readers are interleaved, and whether or
\* not the other reader was dropped mid-stream, each reader has taken a prefix
\* of what reading its entry alone yields, and all of it at end of stream;
\* each reader holds a file handle of its own, whose cursor only it moves.
C3_ReadersIndependent ==
    /\ \A r \in Handles : Live(r) =>
          LET rd == Unwrap(readers[r]).got
              alone == AloneRaw(Unwrap(readers[r]).call.index)
          IN  /\ IsPrefix(rd.raw, alone)
              /\ rd.eof => rd.raw = alone
              /\ cursor[rd.handle] = rd.start + Len(rd.raw)
    /\ \A r, q \in Handles :
          (Live(r) /\ Live(q) /\ r # q) =>
              Unwrap(readers[r]).got.handle # Unwrap(readers[q]).got.handle

\* two readers on different entries, one mid-stream and one read to its end
C3_Witness ==
    \E r, q \in Handles :
        /\ Live(r) /\ Live(q) /\ r # q
        /\ Unwrap(readers[r]).call.index # Unwrap(readers[q]).call.index
        /\ Unwrap(readers[r]).got.raw # << >> /\ ~Unwrap(readers[r]).got.eof
        /\ Unwrap(readers[q]).got.raw # << >> /\ Unwrap(readers[q]).got.eof

\* C4: entry_reader(index) with index at or beyond the number of entries
\* returns EntryIndexOutOfBounds having begun no I/O operation, whatever I/O
\* fault is due; with a smaller index it never returns EntryIndexOutOfBounds.
C4_IndexBounds ==
    \A r \in Handles : IsSome(readers[r]) =>
        LET c == Unwrap(readers[r]).call
            g == Unwrap(readers[r]).got
            n == Len(Unwrap(zr).entries)
        IN  /\ c.index >= n => (g.res = "EntryIndexOutOfBounds" /\ g.io = 0)
            /\ c.index < n => g.res # "EntryIndexOutOfBounds"

\* an index past the end was asked of a non-empty archive while the open of
\* the file was due to fail
C4_Witness ==
    \E r \in Handles :
        /\ IsSome(readers[r])
        /\ Len(Unwrap(zr).entries) >= 1
        /\ Unwrap(readers[r]).call.index >= Len(Unwrap(zr).entries)
        /\ Unwrap(readers[r]).call.ioFail = 1
        /\ Unwrap(readers[r]).got.res = "EntryIndexOutOfBounds"

HeaderEnd(e) == e.lfh_offset + 4 + LfhSize + Len(e.options.filename) + Len(e.options.extra)

DescriptorAt(e) == SubSeq(out, e.end_offset - DescriptorLen + 1, e.end_offset)

\* C5: for every closed stream entry, the compressed size is the number of
\* bytes emitted after the local header and its name and extra bytes, what
\* the shutdown of the adapter emitted included; the uncompressed size is the
\* number of bytes supplied and the CRC is over them; the descriptor holds
\* signature, CRC, compressed size, uncompressed size in this order, and the
\* directory entry appended holds the same three values.
C5_FinalValues ==
    \A i \in 1 .. Len(ClosedLog) : ClosedLog[i].kind = "stream" =>
        LET e == ClosedLog[i]
            h == cd_entries[i].header
            emitted == EmittedOf(e)
        IN  /\ e.data_offset = HeaderEnd(e)
            /\ Decompress(e.options.compression, emitted) = [ok |-> TRUE, data |-> e.supplied]
            /\ DescriptorAt(e) = DATA_DESCRIPTOR \o U32LE(Crc32(e.supplied))
                                    \o U32LE(Len(emitted)) \o U32LE(Len(e.supplied))
            /\ h.crc = Crc32(e.supplied)
            /\ h.compressed_size = Len(emitted)
            /\ h.uncompressed_size = Len(e.supplied)

\* a deflated stream entry with a payload was closed
C5_Witness ==
    \E i \in 1 .. Len(ClosedLog) :
        /\ ClosedLog[i].kind = "stream"
        /\ ClosedLog[i].options.compression = Deflate
        /\ Len(ClosedLog[i].supplied) > 1
        /\ cd_entries[i].header.compressed_size > cd_entries[i].header.uncompressed_size

LfhAt(e) == LfhFromBytes(out, e.lfh_offset + 5)

HeaderRegion(file, e) == SubSeq(file, e.lfh_offset + 1, HeaderEnd(e))

\* the local header of every stream entry holds the placeholders
C6_Placeholders ==
    \A i \in 1 .. Len(log) : log[i].kind = "stream" =>
        /\ SubSeq(out, log[i].lfh_offset + 1, log[i].lfh_offset + 4) = LOCAL_FILE_HEADER
        /\ LfhAt(log[i]).crc = 0
        /\ LfhAt(log[i]).compressed_size = 0
        /\ LfhAt(log[i]).uncompressed_size = 0
        /\ LfhAt(log[i]).flags.data_descriptor
        /\ log[i].data_offset = HeaderEnd(log[i])

\* the directory of the finished archive holds the final values
C6_FinalInDirectory ==
    zw = "closed" =>
        \A i \in 1 .. Len(ClosedLog) : ClosedLog[i].kind = "stream" =>
            LET e == ClosedLog[i]
                d == ReadCd(out).entries[i]
            IN  /\ d.offset = e.lfh_offset
                /\ d.data_descriptor
                /\ d.crc = Crc32(e.supplied)
                /\ d.compressed_size = Len(EmittedOf(e))
                /\ d.uncompressed_size = Len(e.supplied)

\* no step changes the bytes of the local header of a stream entry
C6_NotRewritten ==
    \A i \in 1 .. Len(log) : log[i].kind = "stream" =>
        HeaderRegion(out', log[i]) = HeaderRegion(out, log[i])

\* C6: the local header of a stream entry is written at construction, before
\* any payload byte, with CRC and sizes zero and the data-descriptor flag set;
\* no step changes the bytes of a header written, and in the finished archive
\* the directory entry holds the final values.
C6_HeaderWrittenOnce ==
    /\ [](C6_Placeholders /\ C6_FinalInDirectory)
    /\ [][C6_NotRewritten]_vars

\* a finished archive whose stream entry has a non-zero CRC and sizes in the
\* directory and zeros in its local header
C6_Witness ==
    /\ zw = "closed"
    /\ \E i \in 1 .. Len(ClosedLog) :
          /\ ClosedLog[i].kind = "stream"
          /\ LfhAt(ClosedLog[i]).crc = 0
          /\ LfhAt(ClosedLog[i]).compressed_size = 0
          /\ ReadCd(out).entries[i].crc # 0
          /\ ReadCd(out).entries[i].compressed_size # 0

RECURSIVE DirectoryBytes(_)
DirectoryBytes(entries) ==
    IF entries = << >> THEN << >>
    ELSE CENTRAL_DIRECTORY_FILE_HEADER \o CdhAsSlice(Head(entries).header)
            \o Head(entries).opts.filename \o Head(entries).opts.extra
            \o Head(entries).opts.comment \o DirectoryBytes(Tail(entries))

\* C7: close takes the offset at the call as the start of the directory,
\* writes every directory entry in append order (signature, header, filename,
\* extra, comment) and then an end record whose directory offset is that
\* start, whose directory size is the number of bytes of the entries written,
\* and whose comment length is the length of the comment that follows (0 and
\* no bytes when none was set).
C7_CloseLayout ==
    zw = "closed" =>
        LET dir == DirectoryBytes(cd_entries)
            eocdAt == cd_offset + Len(dir)
            eocd == EocdFromBytes(out, eocdAt + 5)
            comment == IF IsSome(comment_opt) THEN Unwrap(comment_opt) ELSE << >>
        IN  /\ cd_offset = (IF log = << >> THEN 0 ELSE log[Len(log)].end_offset)
            /\ SubSeq(out, cd_offset + 1, eocdAt) = dir
            /\ SubSeq(out, eocdAt + 1, eocdAt + 4) = END_OF_CENTRAL_DIRECTORY
            /\ eocd.cent_dir_offset = cd_offset
            /\ eocd.size_cent_dir = Len(dir)
            /\ eocd.file_comm_length = Len(comment)
            /\ SubSeq(out, eocdAt + 4 + EocdSize + 1, Len(out)) = comment
            /\ Len(out) = eocdAt + 4 + EocdSize + Len(comment)

\* an archive of two entries and a comment was closed
C7_Witness ==
    /\ zw = "closed"
    /\ Len(cd_entries) = 2
    /\ IsSome(comment_opt)
    /\ cd_offset > 0
    /\ EocdOf(out).size_cent_dir > 0

\* the entries lie one after the other in the output, each in one piece
C8_Contiguous ==
    /\ \A i \in 1 .. Len(log) : log[i].state = "open" => (i = Len(log) /\ IsSome(ew))
    /\ IsSome(ew) =>
          /\ zw = "open"
          /\ log # << >>
          /\ log[Len(log)].state = "open"
          /\ log[Len(log)].lfh_offset = Unwrap(ew).lfh_offset
          /\ log[Len(log)].options.compression = Stored =>
                SubSeq(out, HeaderEnd(log[Len(log)]) + 1, Len(out)) = log[Len(log)].supplied
    /\ \A i \in 1 .. Len(log) :
          /\ log[i].lfh_offset = (IF i = 1 THEN 0 ELSE log[i - 1].end_offset)
          /\ SubSeq(out, log[i].lfh_offset + 1, log[i].lfh_offset + 4) = LOCAL_FILE_HEADER
          /\ SubSeq(out, log[i].lfh_offset + 4 + LfhSize + 1, HeaderEnd(log[i]))
                = log[i].options.filename \o log[i].options.extra
          /\ log[i].data_offset = HeaderEnd(log[i])
          /\ log[i].state = "closed" =>
                /\ Decompress(log[i].options.compression, EmittedOf(log[i]))
                      = [ok |-> TRUE, data |-> log[i].supplied]
                /\ log[i].kind = "stream" =>
                      SubSeq(DescriptorAt(log[i]), 1, 4) = DATA_DESCRIPTOR

\* while an entry writer is live nothing else is done with the ZipFileWriter
C8_Exclusive ==
    IsSome(ew) =>
        /\ zw' = zw
        /\ comment_opt' = comment_opt
        /\ started' = started
        /\ Len(log') = Len(log)
        /\ cd_entries' # cd_entries => ew' = None

\* C8: at most one entry is under construction at any time; while an
\* EntryStreamWriter is live no write_entry_stream, write_entry_whole, comment
\* or close takes a step, so the bytes of two entries are never interleaved
\* and header, payload and descriptor of each entry are contiguous.
C8_OneEntryAtATime == []C8_Contiguous /\ [][C8_Exclusive]_vars

\* an entry is under construction, with payload bytes written, after a
\* completed one
C8_Witness ==
    /\ IsSome(ew)
    /\ Len(log) = 2
    /\ log[1].state = "closed"
    /\ log[2].supplied # << >>

\* every entry of the directory of `file` opens, decodes and matches its CRC
ReadsClean(file) ==
    /\ ReadCd(file).ok
    /\ \A i \in 1 .. Len(ReadCd(file).entries) :
          LET g == EntryReaderResult(ReadCd(file).entries, file, i - 1, 0, 1)
          IN  /\ g.res = "Ok"
              /\ Decompress(g.compression, Framed(file, g.start, g.delimited, g.size)).ok
              /\ Crc32(Decompress(g.compression,
                                  Framed(file, g.start, g.delimited, g.size)).data)
                    = ReadCd(file).entries[i].crc

\* C9 (as stated): when an EntryStreamWriter was dropped without close and the
\* ZipFileWriter was then closed, the archive does not read as a well-formed
\* archive.
C9_OmittedCloseDetected ==
    (zw = "closed" /\ \E i \in 1 .. Len(log) : log[i].state = "dropped") => ~ReadsClean(out)

\* the directory entry an entry_reader call was made for
EntryOf(r) == Unwrap(zr).entries[Unwrap(readers[r]).call.index + 1]

InBounds(r) == IsSome(readers[r]) /\ Unwrap(readers[r]).call.index < Len(Unwrap(zr).entries)

\* the recorded offset lies past the end, or the recorded compressed size
\* counted from the end of the fixed part of the local header reaches past it
PointsPastEnd(entry) ==
    \/ entry.offset >= Len(out)
    \/ entry.offset + 4 + LfhSize + entry.compressed_size > Len(out)

\* C11 (as stated): entry_reader for an entry whose recorded compressed size or
\* local-header offset points past the end of the store fails with an error:
\* it does not panic and returns no reader.
C11_PastEndRejected ==
    \A r \in Handles :
        (InBounds(r) /\ PointsPastEnd(EntryOf(r))) => Unwrap(readers[r]).got.res = "Io"

\* C12: when the data-descriptor flag of the directory entry is clear, the
\* reader returned is bounded by the compressed size of the directory entry,
\* whatever the size and the flag of the local header say, and at its end it
\* has consumed exactly that many raw bytes from the payload start (all that
\* is left of the store when the store is shorter); when the flag of the
\* directory entry is set the reader is delimited.
C12_KnownSizeFraming ==
    \A r \in Handles : Live(r) =>
        LET rd == Unwrap(readers[r]).got
            entry == EntryOf(r)
        IN  /\ rd.delimited = entry.data_descriptor
            /\ ~entry.data_descriptor =>
                  /\ rd.size = entry.compressed_size
                  /\ Len(rd.raw) <= entry.compressed_size
                  /\ rd.eof =>
                        /\ rd.raw = SubSeq(out, rd.start + 1,
                                           Min(rd.start + entry.compressed_size, Len(out)))
                        /\ rd.start + entry.compressed_size <= Len(out) =>
                              Len(rd.raw) = entry.compressed_size

\* an entry with the flag clear in the directory was read to its end, while
\* its local header holds the flag set and another size
C12_Witness ==
    \E r \in Handles :
        /\ Live(r)
        /\ Unwrap(readers[r]).got.eof
        /\ ~EntryOf(r).data_descriptor
        /\ LfhFromBytes(out, EntryOf(r).offset + 5).flags.data_descriptor
        /\ LfhFromBytes(out, EntryOf(r).offset + 5).compressed_size # EntryOf(r).compressed_size
        /\ EntryOf(r).compressed_size > 0
        /\ Len(Unwrap(readers[r]).got.raw) = EntryOf(r).compressed_size

\* the raw bytes from pos up to the first data-descriptor signature
UpToFirstSignature(pos) ==
    SubSeq(out, pos + 1, FindFirst(out, pos + 1, DATA_DESCRIPTOR) - 1)

\* C13: when the data-descriptor flag of the directory entry is set, the raw
\* payload the reader takes is the bytes from the payload start up to, and
\* not including, the first occurrence of the data-descriptor signature; the
\* compressed size of the directory is not used.
C13_DelimitedFraming ==
    \A r \in Handles : (Live(r) /\ EntryOf(r).data_descriptor) =>
        LET rd == Unwrap(readers[r]).got
        IN  /\ rd.delimited
            /\ FindFirst(out, rd.start + 1, DATA_DESCRIPTOR) # 0
            /\ IsPrefix(rd.raw, UpToFirstSignature(rd.start))
            /\ rd.eof => rd.raw = UpToFirstSignature(rd.start)

\* a payload that holds the signature was read to the end of its frame, which
\* is shorter than the compressed size of the directory
C13_Witness ==
    \E r \in Handles :
        /\ Live(r)
        /\ EntryOf(r).data_descriptor
        /\ Unwrap(readers[r]).got.eof
        /\ Unwrap(readers[r]).got.raw # << >>
        /\ Len(Unwrap(readers[r]).got.raw) < EntryOf(r).compressed_size

\* C14 (as stated): for every pair of lengths in the local header, entry_reader
\* does not panic and places the payload start at offset + 4 + the size of the
\* local header + file_name_length + extra_field_length.
C14_PayloadStart ==
    \A r \in Handles :
        (InBounds(r) /\ EntryOf(r).offset + 4 + LfhSize <= Len(out)) =>
            LET h == LfhFromBytes(out, EntryOf(r).offset + 5)
            IN  /\ Unwrap(readers[r]).got.res = "Ok"
                /\ Unwrap(readers[r]).got.start
                      = EntryOf(r).offset + 4 + LfhSize
                            + h.file_name_length + h.extra_field_length

\* C15: in every state of an open EntryStreamWriter the hasher has consumed
\* exactly the bytes the inner writer accepted, in order (a prefix of a buffer
\* accepted in part, nothing of a poll that was pending or failed), and as
\* many bytes as the offset counts; the CRC and the uncompressed size of a
\* closed stream entry are those of the accepted bytes.
C15_HasherTracksAccepted ==
    /\ IsSome(ew) =>
          /\ Unwrap(ew).hasher = HasherUpdate(HasherNew, Unwrap(ew).supplied)
          /\ Unwrap(ew).uoffset = Len(Unwrap(ew).supplied)
    /\ \A i \in 1 .. Len(ClosedLog) : ClosedLog[i].kind = "stream" =>
          /\ ClosedLog[i].crc = HasherFinalize(HasherUpdate(HasherNew, ClosedLog[i].supplied))
          /\ ClosedLog[i].uncompressed_size = Len(ClosedLog[i].supplied)
          /\ cd_entries[i].header.crc = ClosedLog[i].crc
          /\ cd_entries[i].header.uncompressed_size = ClosedLog[i].uncompressed_size

\* the first entry writer is open after a poll_write of it failed, and has
\* accepted a part of its payload
C15_Witness ==
    /\ IsSome(ew)
    /\ Len(log) = 1
    /\ ioErrors = 1
    /\ Unwrap(ew).supplied # << >>
    /\ Unwrap(ew).supplied \notin Payloads
    /\ Unwrap(ew).hasher # HasherNew

\* where the bytes of the i-th entry begun end: at the next entry begun, at
\* the directory, or at the end of the output
NextStart(i) ==
    IF i < Len(log) THEN log[i + 1].lfh_offset
    ELSE IF zw # "open" THEN cd_offset ELSE Len(out)

\* all that a close of the stream entry e writes after the local header
StreamTail(e) ==
    CompressWhole(e.options.compression, e.supplied)
        \o DATA_DESCRIPTOR \o U32LE(Crc32(e.supplied))
        \o U32LE(Len(CompressWhole(e.options.compression, e.supplied)))
        \o U32LE(Len(e.supplied))

\* all that ZipFileWriter::close writes
CloseTail ==
    DirectoryBytes(cd_entries) \o END_OF_CENTRAL_DIRECTORY
        \o EocdAsSlice(EocdHeader(cd_entries, cd_offset,
                                  cd_offset + Len(DirectoryBytes(cd_entries)), comment_opt))
        \o (IF IsSome(comment_opt) THEN Unwrap(comment_opt) ELSE << >>)

IsProperPrefix(s, t) == IsPrefix(s, t) /\ Len(s) < Len(t)

\* what failed operations leave behind
C16_StopsAtFailure ==
    /\ Len(cd_entries) = Len(ClosedLog)
    /\ \A i \in 1 .. Len(cd_entries) : cd_entries[i].opts = ClosedLog[i].options
    /\ IsSome(ew) => (log # << >> /\ log[Len(log)].state = "open")
    /\ \A i \in 1 .. Len(log) : (log[i].kind = "stream" /\ log[i].state = "failed") =>
          IF log[i].data_offset = 0
          THEN /\ log[i].supplied = << >>
               /\ IsProperPrefix(SubSeq(out, log[i].lfh_offset + 1, NextStart(i)),
                                 LOCAL_FILE_HEADER
                                    \o LfhAsSlice(StreamLfh(log[i].options, ZipTime(i)))
                                    \o log[i].options.filename \o log[i].options.extra)
          ELSE IsProperPrefix(SubSeq(out, log[i].data_offset + 1, NextStart(i)),
                              StreamTail(log[i]))
    /\ zw = "failed" => IsProperPrefix(SubSeq(out, cd_offset + 1, Len(out)), CloseTail)
    /\ zw = "closed" => SubSeq(out, cd_offset + 1, Len(out)) = CloseTail

\* C16: a failed write ends the operation: nothing that the operation would
\* have written after the failed write is in the output, a failed close of an
\* entry writer appends no directory entry, a failed write_entry_stream leaves
\* no entry writer, a failed ZipFileWriter::close writes nothing after the
\* failed write; no step removes or changes bytes already written.
C16_FailurePropagates == []C16_StopsAtFailure /\ [][IsPrefix(out, out')]_vars

\* ZipFileWriter::close failed after it had written a part of a directory of
\* one entry at least
C16_Witness ==
    /\ zw = "failed"
    /\ ioErrors = 1
    /\ cd_entries # << >>
    /\ Len(out) > cd_offset

\* C17: the local-header offset of every directory entry is the offset of the
\* output at which the signature of its local header was written; the offsets
\* increase strictly in append order, the region of an entry ends at or
\* before the offset of the next one, and in a closed archive every offset is
\* smaller than the directory offset of the end record.
C17_Offsets ==
    /\ Len(cd_entries) = Len(ClosedLog)
    /\ \A i \in 1 .. Len(cd_entries) :
          /\ cd_entries[i].header.lh_offset = ClosedLog[i].lfh_offset
          /\ SubSeq(out, cd_entries[i].header.lh_offset + 1,
                    cd_entries[i].header.lh_offset + 4) = LOCAL_FILE_HEADER
          /\ SubSeq(out, cd_entries[i].header.lh_offset + 4 + LfhSize + 1,
                    cd_entries[i].header.lh_offset + 4 + LfhSize
                        + Len(cd_entries[i].opts.filename))
                = cd_entries[i].opts.filename
          /\ cd_entries[i].header.lh_offset < ClosedLog[i].end_offset
          /\ i < Len(cd_entries) =>
                /\ cd_entries[i].header.lh_offset < cd_entries[i + 1].header.lh_offset
                /\ ClosedLog[i].end_offset <= cd_entries[i + 1].header.lh_offset
          /\ zw = "closed" =>
                /\ cd_entries[i].header.lh_offset < EocdOf(out).cent_dir_offset
                /\ ClosedLog[i].end_offset <= EocdOf(out).cent_dir_offset
    /\ zw = "closed" =>
          /\ EocdOf(out).cent_dir_offset = cd_offset
          /\ \A i \in 1 .. Len(cd_entries) :
                ReadCd(out).entries[i].offset = ClosedLog[i].lfh_offset

\* a closed archive of a stream entry and a whole entry
C17_Witness ==
    /\ zw = "closed"
    /\ Len(cd_entries) = 2
    /\ ClosedLog[1].kind # ClosedLog[2].kind
    /\ cd_entries[2].header.lh_offset > cd_entries[1].header.lh_offset
    /\ EocdOf(out).cent_dir_offset > cd_entries[2].header.lh_offset

\* C18 (as stated): every length, size, offset and count in a header of a
\* closed archive is the true quantity: the lengths of the names, extras and
\* comments written, the sizes and the offsets, the number of directory
\* entries, and the length of the archive comment written after the end
\* record.
C18_FieldsHoldTrueValues ==
    zw = "closed" =>
        LET dir == DirectoryBytes(cd_entries)
            eocdAt == cd_offset + Len(dir)
            eocd == EocdFromBytes(out, eocdAt + 5)
        IN  /\ \A i \in 1 .. Len(cd_entries) :
                  /\ cd_entries[i].header.file_name_length = Len(cd_entries[i].opts.filename)
                  /\ cd_entries[i].header.extra_field_length = Len(cd_entries[i].opts.extra)
                  /\ cd_entries[i].header.file_comment_length = Len(cd_entries[i].opts.comment)
                  /\ cd_entries[i].header.compressed_size = Len(EmittedOf(ClosedLog[i]))
                  /\ cd_entries[i].header.uncompressed_size = Len(ClosedLog[i].supplied)
                  /\ cd_entries[i].header.lh_offset = ClosedLog[i].lfh_offset
            /\ eocd.num_of_entries = Len(cd_entries)
            /\ eocd.size_cent_dir = Len(dir)
            /\ eocd.cent_dir_offset = cd_offset
            /\ eocd.file_comm_length = Len(out) - (eocdAt + 4 + EocdSize)

\* the fields a directory header shares with the local header of its entry
AgreesWithLfh(cdh, lfh) ==
    /\ cdh.v_needed = lfh.version
    /\ cdh.flags = lfh.flags
    /\ cdh.flags.data_descriptor
    /\ cdh.compression = lfh.compression
    /\ cdh.mod_time = lfh.mod_time
    /\ cdh.mod_date = lfh.mod_date
    /\ cdh.file_name_length = lfh.file_name_length
    /\ cdh.extra_field_length = lfh.extra_field_length

\* the offset in the output of the i-th header of the directory
CdhOffset(i) == cd_offset + Len(DirectoryBytes(SubSeq(cd_entries, 1, i - 1)))

\* C19: the directory header of every stream entry agrees with the local
\* header of the entry in the output on version needed, flags (data-descriptor
\* bit set), compression method, modification time and date, filename length
\* and extra-field length, and the filename and extra bytes written in the
\* directory at archive close are the bytes that follow the local header.
C19_HeadersAgree ==
    \A i \in 1 .. Len(ClosedLog) : ClosedLog[i].kind = "stream" =>
        LET lfh == LfhAt(ClosedLog[i])
            at == CdhOffset(i)
        IN  /\ AgreesWithLfh(cd_entries[i].header, lfh)
            /\ zw = "closed" =>
                  /\ SubSeq(out, at + 1, at + 4) = CENTRAL_DIRECTORY_FILE_HEADER
                  /\ AgreesWithLfh(CdhFromBytes(out, at + 5), lfh)
                  /\ SubSeq(out, at + 4 + CdhSize + 1,
                            at + 4 + CdhSize + lfh.file_name_length + lfh.extra_field_length)
                        = SubSeq(out, ClosedLog[i].lfh_offset + 4 + LfhSize + 1,
                                 HeaderEnd(ClosedLog[i]))

\* a closed archive whose second entry is a deflated stream entry with an
\* extra field and a payload: its two headers differ in CRC and sizes
C19_Witness ==
    /\ zw = "closed"
    /\ Len(ClosedLog) = 2
    /\ ClosedLog[2].kind = "stream"
    /\ ClosedLog[2].options.extra # << >>
    /\ LfhAt(ClosedLog[2]).mod_time # 0
    /\ LfhAt(ClosedLog[2]).crc # CdhFromBytes(out, CdhOffset(2) + 5).crc
    /\ LfhAt(ClosedLog[2]).compressed_size # CdhFromBytes(out, CdhOffset(2) + 5).compressed_size

====
